---- MODULE Spec2Model ----
(***************************************************************************)
(* Complaint intake and lifecycle pipeline of Nagar Rakshak.               *)
(*                                                                         *)
(*   src/src/components/ComplaintRegistration.tsx  the form component with *)
(*       automatic routing (handleMediaUpload, handleSubmit,               *)
(*       mapAuthorityForIssue)                                             *)
(*   src/unnamed/part_000                          the earlier form        *)
(*       component, whose handleSubmit does no routing                     *)
(*   src/src/services/notificationService.ts       createNotification,     *)
(*       createComplaintNotifications                                      *)
(*   src/src/components/NotificationSystem.tsx     the bell component      *)
(*       (fetchNotifications, markAsRead)                                  *)
(*                                                                         *)
(* Every await of the source is a suspension point: a handler is cut into  *)
(* one action per stretch of code between two awaits, and the awaited call *)
(* ends as the collaborator decides (a result, an error result, or a       *)
(* rejected promise).  A handler reads formData from the closure of the    *)
(* render it was created in, so an in-flight handler works on a snapshot.  *)
(***************************************************************************)
EXTENDS Naturals, Integers, Sequences, FiniteSets, TLC

VARIABLES
    mounted,        \* the component instances that are mounted
    form,           \* per instance: the React state of the component
    sub,            \* per instance: the handleSubmit call in flight (or the last one)
    ana,            \* per instance: the handleMediaUpload call in flight (or the last one)
    now,            \* Date.now() / the timer clock, in ms
    blobs,          \* blob store, bucket 'complaints'
    complaints,     \* table complaints, a row's id is its index
    statusUpdates,  \* table complaint_status_updates, in insertion order
    arms,           \* the calls of createComplaintNotifications made so far
    notifications,  \* table notifications, in insertion order
    resolved,       \* the calls of mapAuthorityForIssue made on their own: <<issue, result>>
    bell            \* the NotificationSystem component: its prop, React state and channel

formVars  == <<form, sub, ana>>
storeVars == <<blobs, complaints, statusUpdates>>
schedVars == <<arms, notifications>>
vars == <<mounted, form, sub, ana, now, blobs, complaints, statusUpdates, arms, notifications,
          resolved, bell>>

----------------------------------------------------------------------------
(* Bounds of the model *)

MaxComplaints == 2      \* rows the complaints table can take
MaxArms == 2            \* calls of createComplaintNotifications
MaxTime == 35000        \* the clock stops advancing here
TickMs == 5000          \* one step of the clock
MaxFairArms == 1        \* calls of createComplaintNotifications under SchedFairSpec
MaxOperatorMoves == 2   \* status transitions the operator tooling makes
MaxResolveCalls == 2    \* calls of mapAuthorityForIssue made on their own
MaxUploadTime == 5000   \* the clock stops advancing here under ConcurrentSpec

(* Values *)

Null == "null"                               \* null, where the other values are strings
NoFile == <<>>                               \* null, for a File
NoName == <<>>                               \* null, for a blob name or its public URL
NoCode == <<>>                               \* complaintId '' before any submission

RoutedForms == {"r1", "r2"}                  \* instances of ComplaintRegistration.tsx
PlainForms  == {"p1"}                        \* instances of unnamed/part_000
Forms == RoutedForms \cup PlainForms

IssueTypes == {"streetlight", "pothole", "garbage", "drainage", "water",
               "electricity", "noise", "others"}
IssueChoices == {"electricity", "others"}    \* the issue types the driven forms pick
StateChoices == {"Delhi"}
CityChoices  == {"Delhi"}
TypedDescriptions == {"typed"}               \* what the user types into the textarea
AiDescription == "ai"                        \* data.description of the classifier
Files == {<<"photo", "jpg">>}                \* a File, by the dot-separated parts of its name
Outcomes == {"ok", "error", "throw"}         \* how an awaited supabase call ends

----------------------------------------------------------------------------
(* Strings the code takes apart: an issue-type token by its characters *)

Chars(issue) ==
    CASE issue = "streetlight" -> <<"s","t","r","e","e","t","l","i","g","h","t">>
      [] issue = "pothole"     -> <<"p","o","t","h","o","l","e">>
      [] issue = "garbage"     -> <<"g","a","r","b","a","g","e">>
      [] issue = "drainage"    -> <<"d","r","a","i","n","a","g","e">>
      [] issue = "water"       -> <<"w","a","t","e","r">>
      [] issue = "electricity" -> <<"e","l","e","c","t","r","i","c","i","t","y">>
      [] issue = "noise"       -> <<"n","o","i","s","e">>
      [] issue = "others"      -> <<"o","t","h","e","r","s">>
      [] issue = "Electricity" -> <<"E","l","e","c","t","r","i","c","i","t","y">>
      [] issue = "ROAD"        -> <<"R","O","A","D">>
      [] issue = "transport"   -> <<"t","r","a","n","s","p","o","r","t">>
      [] OTHER                 -> <<>>

\* String.prototype.toLowerCase, on the letters the tokens use
LowerChar(c) ==
    CASE c = "E" -> "e" [] c = "R" -> "r" [] c = "O" -> "o"
      [] c = "A" -> "a" [] c = "D" -> "d" [] OTHER -> c

toLowerCase(s) == [i \in 1..Len(s) |-> LowerChar(s[i])]

\* String.prototype.includes
includes(s, t) ==
    \E i \in 0..(Len(s) - Len(t)) : SubSeq(s, i + 1, i + Len(t)) = t

----------------------------------------------------------------------------
(* RoutingResolver *)

\* mapAuthorityForIssue with the first rule looking for 'power', the label of the
\* electricity entry, instead of a part of its value
mapAuthorityForIssuePower(issue) ==
    LET normalized == toLowerCase(Chars(issue)) IN
    IF includes(normalized, <<"p","o","w","e","r">>)
      THEN "Electricity Department"
    ELSE IF includes(normalized, <<"w","a","t","e","r">>)
            \/ includes(normalized, <<"d","r","a","i","n">>)
      THEN "Jal Board / Water Supply Department"
    ELSE IF includes(normalized, <<"n","o","i","s","e">>)
      THEN "Pollution Control Board / Local Police Authority"
    ELSE Null

\* mapAuthorityForIssue with the public-works rule looking for 'road' alone
mapAuthorityForIssueRoadOnly(issue) ==
    LET normalized == toLowerCase(Chars(issue)) IN
    IF includes(normalized, <<"e","l","e","c","t","r","i","c">>)
      THEN "Electricity Department"
    ELSE IF includes(normalized, <<"w","a","t","e","r">>)
            \/ includes(normalized, <<"d","r","a","i","n">>)
      THEN "Jal Board / Water Supply Department"
    ELSE IF includes(normalized, <<"g","a","r","b","a","g","e">>)
      THEN "Nagar Nigam / Municipal Corporation"
    ELSE IF includes(normalized, <<"r","o","a","d">>)
      THEN "Public Works Department (PWD)"
    ELSE IF includes(normalized, <<"s","t","r","e","e","t">>)
      THEN "Nagar Nigam / Municipal Corporation (Street Lighting Division)"
    ELSE IF includes(normalized, <<"t","r","a","n","s","p","o","r","t">>)
      THEN "Local Transport Authority / RTO"
    ELSE IF includes(normalized, <<"n","o","i","s","e">>)
      THEN "Pollution Control Board / Local Police Authority"
    ELSE Null

mapAuthorityForIssue(issue) ==
    LET normalized == toLowerCase(Chars(issue)) IN
    IF includes(normalized, <<"e","l","e","c","t","r","i","c">>)
      THEN "Electricity Department"
    ELSE IF includes(normalized, <<"w","a","t","e","r">>)
            \/ includes(normalized, <<"d","r","a","i","n">>)
      THEN "Jal Board / Water Supply Department"
    ELSE IF includes(normalized, <<"g","a","r","b","a","g","e">>)
      THEN "Nagar Nigam / Municipal Corporation"
    ELSE IF includes(normalized, <<"p","o","t","h","o","l","e">>)
            \/ includes(normalized, <<"r","o","a","d">>)
      THEN "Public Works Department (PWD)"
    ELSE IF includes(normalized, <<"s","t","r","e","e","t">>)
      THEN "Nagar Nigam / Municipal Corporation (Street Lighting Division)"
    ELSE IF includes(normalized, <<"t","r","a","n","s","p","o","r","t">>)
      THEN "Local Transport Authority / RTO"
    ELSE IF includes(normalized, <<"n","o","i","s","e">>)
      THEN "Pollution Control Board / Local Police Authority"
    ELSE Null

----------------------------------------------------------------------------
(* The component's state *)

InitialFormData ==
    [state |-> "", city |-> "", issueType |-> "", description |-> "", media |-> NoFile]

InitialForm ==
    [step |-> "form", complaintId |-> NoCode,
     isSubmitting |-> FALSE, isAnalyzing |-> FALSE, formData |-> InitialFormData]

\* No handleSubmit call yet.  pc: where the call is suspended; snap: the formData of
\* its closure; rowId, code: data.id and data.complaint_code of the inserted row;
\* writes: the writes the call has made, in order; ignored: the awaits whose error
\* result it dropped; failedAt: the await that sent it to the catch block; toast:
\* its last toast.
IdleSubmit ==
    [pc |-> "idle", snap |-> InitialFormData, fileName |-> NoName, mediaUrl |-> NoName,
     rowId |-> 0, code |-> NoCode, writes |-> <<>>, ignored |-> {},
     failedAt |-> Null, toast |-> Null]

\* No handleMediaUpload call yet.  issueType: formData.issueType of its closure;
\* before: the description when the call started; checked: the issue type the held
\* media was found relevant to ("" when it was not); calls: classification requests
\* the call has made; toast: its last toast.
IdleAnalysis ==
    [pc |-> "idle", issueType |-> "", file |-> NoFile, before |-> "", checked |-> "",
     calls |-> 0, toast |-> Null]

InitForms ==
    /\ form = [f \in Forms |-> InitialForm]
    /\ sub  = [f \in Forms |-> IdleSubmit]
    /\ ana  = [f \in Forms |-> IdleAnalysis]

InitStores ==
    /\ now = 0
    /\ blobs = {}
    /\ complaints = <<>>
    /\ statusUpdates = <<>>
    /\ arms = <<>>
    /\ notifications = <<>>
    /\ resolved = <<>>

\* NotificationSystem.tsx: useState([]), useState(0), useState(false); no userId
\* has been passed yet, so the effect has neither fetched nor subscribed
InitialBell ==
    [userId |-> Null, notifications |-> <<>>, unreadCount |-> 0,
     showNotifications |-> FALSE, channel |-> FALSE]

InitBell == bell = InitialBell

\* The form is on screen: the 'success' step renders the receipt instead (early return)
FormShown(f) == f \in mounted /\ form[f].step = "form"

SetFormData(f, fd) == form' = [form EXCEPT ![f].formData = fd]

----------------------------------------------------------------------------
(* Field edits *)

\* State select: the routed component also clears the city, the plain one does not
SelectState(f, value) ==
    /\ FormShown(f)
    /\ SetFormData(f, IF f \in RoutedForms
                        THEN [form[f].formData EXCEPT !.state = value, !.city = ""]
                        ELSE [form[f].formData EXCEPT !.state = value])
    /\ UNCHANGED <<mounted, resolved, bell, sub, ana, now, storeVars, schedVars>>

\* City: in the routed component a select over the cities of the chosen state (none
\* while no state is chosen), in the plain one a free-text input
SelectCity(f, value) ==
    /\ FormShown(f)
    /\ f \in RoutedForms => form[f].formData.state # ""
    /\ SetFormData(f, [form[f].formData EXCEPT !.city = value])
    /\ UNCHANGED <<mounted, resolved, bell, sub, ana, now, storeVars, schedVars>>

\* Issue-type select: never disabled
SelectIssueType(f, value) ==
    /\ FormShown(f)
    /\ SetFormData(f, [form[f].formData EXCEPT !.issueType = value])
    /\ UNCHANGED <<mounted, resolved, bell, sub, ana, now, storeVars, schedVars>>

\* Description textarea: disabled while isAnalyzing
EditDescription(f, value) ==
    /\ FormShown(f)
    /\ ~form[f].isAnalyzing
    /\ SetFormData(f, [form[f].formData EXCEPT !.description = value])
    /\ UNCHANGED <<mounted, resolved, bell, sub, ana, now, storeVars, schedVars>>

\* 'Register New Complaint' on the receipt
RegisterNewComplaint(f) ==
    /\ f \in mounted
    /\ form[f].step = "success"
    /\ form' = [form EXCEPT ![f].step = "form", ![f].formData = InitialFormData]
    /\ ana' = [ana EXCEPT ![f].checked = ""]
    /\ UNCHANGED <<mounted, resolved, bell, sub, now, storeVars, schedVars>>

----------------------------------------------------------------------------
(* MediaAnalysisGate: handleMediaUpload *)

\* handleMediaUpload without its test of formData.issueType
handleMediaUploadNoIssueCheck(f, file) ==
    /\ FormShown(f)
    /\ ~form[f].isAnalyzing
    /\ ana[f].pc = "idle"
    /\ form' = [form EXCEPT ![f].formData.media = file,
                            ![f].formData.description = "",
                            ![f].isAnalyzing = TRUE]
    /\ ana' = [ana EXCEPT ![f] = [pc |-> "reading",
                                  issueType |-> form[f].formData.issueType,
                                  file |-> file,
                                  before |-> form[f].formData.description,
                                  checked |-> "",
                                  calls |-> 0, toast |-> Null]]
    /\ UNCHANGED <<mounted, resolved, bell, sub, now, storeVars, schedVars>>

\* The file input's onChange, up to reader.readAsDataURL(file).  The inputs are
\* disabled while isAnalyzing.
handleMediaUpload(f, file) ==
    /\ FormShown(f)
    /\ ~form[f].isAnalyzing
    /\ ana[f].pc = "idle"
    /\ IF form[f].formData.issueType = ""
         THEN /\ ana' = [ana EXCEPT ![f] = [IdleAnalysis EXCEPT
                                                !.toast = "select-issue-type",
                                                !.checked = ana[f].checked]]
              /\ UNCHANGED form
         ELSE /\ form' = [form EXCEPT ![f].formData.media = file,
                                      ![f].formData.description = "",
                                      ![f].isAnalyzing = TRUE]
              /\ ana' = [ana EXCEPT ![f] = [pc |-> "reading",
                                            issueType |-> form[f].formData.issueType,
                                            file |-> file,
                                            before |-> form[f].formData.description,
                                            checked |-> "",
                                            calls |-> 0, toast |-> Null]]
    /\ UNCHANGED <<mounted, resolved, bell, sub, now, storeVars, schedVars>>

\* reader.onloadend: the classification request leaves, with the issue type of the closure
ReaderLoadEnd(f) ==
    /\ f \in mounted
    /\ ana[f].pc = "reading"
    /\ ana' = [ana EXCEPT ![f].pc = "invoking", ![f].calls = @ + 1]
    /\ UNCHANGED <<mounted, resolved, bell, form, sub, now, storeVars, schedVars>>

\* How functions.invoke returns: data {is_relevant: true, description},
\* data {is_relevant: false, reason}, an error result or a rejection ("error"),
\* data null ("malformed"), or data an object without is_relevant ("malformed-object")
AnalysisResponses == {"relevant", "irrelevant", "error", "malformed", "malformed-object"}

\* if (data.is_relevant) ... else: anything but a true is_relevant takes the else branch
TakesElseBranch(resp) == resp \in {"irrelevant", "malformed-object"}

\* InvokeDone with the request sent again when the call fails
InvokeDoneRetrying(f, resp) ==
    /\ f \in mounted
    /\ ana[f].pc = "invoking"
    /\ IF resp \in {"error", "malformed"}
         THEN /\ ana' = [ana EXCEPT ![f].calls = @ + 1]
              /\ UNCHANGED form
         ELSE /\ form' = [form EXCEPT
                           ![f].formData = IF resp = "relevant"
                                             THEN [@ EXCEPT !.description = AiDescription]
                                             ELSE [@ EXCEPT !.media = NoFile],
                           ![f].isAnalyzing = FALSE]
              /\ ana' = [ana EXCEPT ![f].pc = "idle", ![f].issueType = "",
                                    ![f].file = NoFile, ![f].before = "",
                                    ![f].checked = IF resp = "relevant"
                                                     THEN ana[f].issueType ELSE "",
                                    ![f].toast = IF resp = "relevant" THEN "analyzed"
                                                 ELSE IF resp = "irrelevant" THEN "irrelevant"
                                                 ELSE "irrelevant-no-reason"]
    /\ UNCHANGED <<mounted, resolved, bell, sub, now, storeVars, schedVars>>

\* The classification call returns: try / catch / finally of onloadend
InvokeDone(f, resp) ==
    /\ f \in mounted
    /\ ana[f].pc = "invoking"
    /\ form' = [form EXCEPT
                  ![f].formData = IF resp = "relevant"
                                    THEN [@ EXCEPT !.description = AiDescription]
                                  ELSE IF TakesElseBranch(resp)
                                    THEN [@ EXCEPT !.media = NoFile]
                                  ELSE @,
                  ![f].isAnalyzing = FALSE]
    /\ ana' = [ana EXCEPT ![f].pc = "idle", ![f].issueType = "", ![f].file = NoFile,
                          ![f].before = "",
                          ![f].checked = IF resp = "relevant" THEN ana[f].issueType ELSE "",
                          ![f].toast = IF resp = "relevant" THEN "analyzed"
                                       ELSE IF resp = "irrelevant" THEN "irrelevant"
                                       ELSE IF resp = "malformed-object"
                                         THEN "irrelevant-no-reason"
                                       ELSE "analysis-failed"]
    /\ UNCHANGED <<mounted, resolved, bell, sub, now, storeVars, schedVars>>

----------------------------------------------------------------------------
(* ComplaintStore and blob store, at their interface *)

\* insert(complaint) -> {id, code}: the store owns the code, the prefix NGR and the
\* digits of the next number of its sequence, and never reuses one
GenerateCode == <<"NGR", Len(complaints) + 1>>

\* The row the store makes of an insert payload: status defaults to Pending
StoreInsert(payload, id, code) ==
    [id |-> id, complaint_code |-> code, status |-> "Pending", assigned_to |-> Null,
     state |-> payload.state, city |-> payload.city,
     issue_type |-> payload.issue_type, description |-> payload.description,
     media_url |-> payload.media_url]

\* supabase.storage.from('complaints').getPublicUrl(fileName)
getPublicUrl(fileName) == <<"complaints">> \o fileName

----------------------------------------------------------------------------
(* SubmissionPipeline: handleSubmit *)

\* The required-field test without its city operand
MissingInformationNoCity(fd) ==
    fd.state = "" \/ fd.issueType = "" \/ fd.description = ""

\* The required-field test
MissingInformation(fd) ==
    fd.state = "" \/ fd.city = "" \/ fd.issueType = "" \/ fd.description = ""

\* formData.media.name.split('.').pop()
FileExt(file) == file[Len(file)]

\* `${Date.now()}.${fileExt}`
FileName(t, file) == <<t, FileExt(file)>>

\* The object handed to .insert(); district and the address lines, which are
\* optional free text, are not part of the modelled form
InsertPayload(fd, mediaUrl) ==
    [state |-> fd.state, city |-> fd.city, issue_type |-> fd.issueType,
     description |-> fd.description, media_url |-> mediaUrl]

\* catch + finally with setStep('success') after the try statement instead of in it
CaughtThenSuccess(f, at) ==
    /\ form' = [form EXCEPT ![f].isSubmitting = FALSE, ![f].step = "success"]
    /\ sub' = [sub EXCEPT ![f].pc = "idle", ![f].snap = InitialFormData,
                          ![f].fileName = NoName, ![f].mediaUrl = NoName,
                          ![f].failedAt = at, ![f].toast = "failed"]

\* catch without the finally block: isSubmitting stays set
CaughtNoFinally(f, at) ==
    /\ UNCHANGED form
    /\ sub' = [sub EXCEPT ![f].pc = "idle", ![f].snap = InitialFormData,
                          ![f].fileName = NoName, ![f].mediaUrl = NoName,
                          ![f].failedAt = at, ![f].toast = "failed"]

\* catch + finally: 'Submission Failed', isSubmitting released
Caught(f, at) ==
    /\ form' = [form EXCEPT ![f].isSubmitting = FALSE]
    /\ sub' = [sub EXCEPT ![f].pc = "idle", ![f].snap = InitialFormData,
                          ![f].fileName = NoName, ![f].mediaUrl = NoName,
                          ![f].failedAt = at, ![f].toast = "failed"]

\* setComplaintId(data.code): a column the select does not return, so undefined
DisplayedCodeNoColumn(data) == NoCode

\* setComplaintId(data.complaint_code)
DisplayedCode(data) == data.complaint_code

\* The upload sends the call to the catch block only when its promise rejects
UploadThrowsOnRejection(outcome) == outcome = "throw"

\* if (uploadError) throw uploadError, or the promise of the upload rejects
UploadThrows(outcome) == outcome = "error" \/ outcome = "throw"

\* setStep('success'), the success toast, finally; s: the call's record so far
Succeeded(f, complaintId, s) ==
    /\ form' = [form EXCEPT ![f].step = "success", ![f].complaintId = complaintId,
                            ![f].isSubmitting = FALSE]
    /\ sub' = [sub EXCEPT ![f] = [s EXCEPT !.pc = "idle", !.snap = InitialFormData,
                                          !.fileName = NoName, !.mediaUrl = NoName,
                                          !.toast = "submitted"]]

\* The Submit button's onClick, up to the first await.  The button is disabled
\* while isSubmitting or isAnalyzing.
handleSubmit(f) ==
    /\ FormShown(f)
    /\ ~form[f].isSubmitting /\ ~form[f].isAnalyzing
    /\ sub[f].pc = "idle"
    /\ LET fd == form[f].formData IN
       IF MissingInformation(fd)
         THEN /\ sub' = [sub EXCEPT ![f] = [IdleSubmit EXCEPT !.toast = "missing"]]
              /\ UNCHANGED form
         ELSE /\ form' = [form EXCEPT ![f].isSubmitting = TRUE]
              /\ sub' = [sub EXCEPT ![f] =
                   IF fd.media # NoFile
                     THEN [IdleSubmit EXCEPT !.pc = "upload", !.snap = fd,
                                             !.fileName = FileName(now, fd.media)]
                     ELSE [IdleSubmit EXCEPT !.pc = "insert", !.snap = fd]]
    /\ UNCHANGED <<mounted, resolved, bell, ana, now, storeVars, schedVars>>

\* storage.upload(fileName, formData.media) returns
UploadDone(f, outcome) ==
    /\ f \in mounted
    /\ sub[f].pc = "upload"
    /\ blobs' = IF outcome = "ok"
                  THEN {b \in blobs : b.name # sub[f].fileName}
                          \cup {[name |-> sub[f].fileName, file |-> sub[f].snap.media]}
                  ELSE blobs
    /\ IF UploadThrows(outcome)
         THEN Caught(f, "upload")
         ELSE /\ sub' = [sub EXCEPT ![f].pc = "insert",
                                    ![f].mediaUrl = getPublicUrl(sub[f].fileName),
                                    ![f].writes = IF outcome = "ok"
                                                    THEN Append(@, "blob") ELSE @]
              /\ UNCHANGED form
    /\ UNCHANGED <<mounted, resolved, bell, ana, now, complaints, statusUpdates, schedVars>>

\* from('complaints').insert(...).select(...).single() returns
InsertDone(f, outcome) ==
    /\ f \in mounted
    /\ sub[f].pc = "insert"
    /\ IF outcome = "ok"
         THEN /\ Len(complaints) < MaxComplaints
              /\ LET data == StoreInsert(InsertPayload(sub[f].snap, sub[f].mediaUrl),
                                         Len(complaints) + 1, GenerateCode)
                     s  == [sub[f] EXCEPT !.rowId = data.id,
                                          !.code = data.complaint_code,
                                          !.writes = Append(@, "complaint")]
                 IN /\ complaints' = Append(complaints, data)
                    /\ IF f \in RoutedForms
                          /\ mapAuthorityForIssue(sub[f].snap.issueType) # Null
                         THEN /\ form' = [form EXCEPT ![f].complaintId = DisplayedCode(data)]
                              /\ sub' = [sub EXCEPT ![f] = [s EXCEPT !.pc = "update"]]
                         ELSE Succeeded(f, DisplayedCode(data), s)
         ELSE /\ Caught(f, "insert")
              /\ UNCHANGED complaints
    /\ UNCHANGED <<mounted, resolved, bell, ana, now, blobs, statusUpdates, schedVars>>

\* from('complaints').update({status: 'Assigned', assigned_to}).eq('id', id) returns;
\* its result is not looked at
UpdateDone(f, outcome) ==
    /\ f \in mounted
    /\ sub[f].pc = "update"
    /\ IF outcome = "throw"
         THEN /\ Caught(f, "update")
              /\ UNCHANGED complaints
         ELSE /\ IF outcome = "ok"
                   THEN /\ complaints' = [complaints EXCEPT
                              ![sub[f].rowId].status = "Assigned",
                              ![sub[f].rowId].assigned_to =
                                  mapAuthorityForIssue(sub[f].snap.issueType)]
                        /\ sub' = [sub EXCEPT ![f].pc = "append",
                                              ![f].writes = Append(@, "update")]
                   ELSE /\ sub' = [sub EXCEPT ![f].pc = "append",
                                              ![f].ignored = @ \cup {"update"}]
                        /\ UNCHANGED complaints
              /\ UNCHANGED form
    /\ UNCHANGED <<mounted, resolved, bell, ana, now, blobs, statusUpdates, schedVars>>

\* from('complaint_status_updates').insert(...) returns; its result is not looked at
AppendDone(f, outcome) ==
    /\ f \in mounted
    /\ sub[f].pc = "append"
    /\ IF outcome = "throw"
         THEN /\ Caught(f, "append")
              /\ UNCHANGED statusUpdates
         ELSE /\ IF outcome = "ok"
                   THEN /\ statusUpdates' = Append(statusUpdates,
                              [complaint_id |-> sub[f].rowId, status |-> "Assigned",
                               assigned_to |-> mapAuthorityForIssue(sub[f].snap.issueType),
                               note |-> sub[f].snap.issueType])
                        /\ Succeeded(f, form[f].complaintId,
                                     [sub[f] EXCEPT !.writes = Append(@, "append")])
                   ELSE /\ Succeeded(f, form[f].complaintId,
                                     [sub[f] EXCEPT !.ignored = @ \cup {"append"}])
                        /\ UNCHANGED statusUpdates
    /\ UNCHANGED <<mounted, resolved, bell, ana, now, blobs, complaints, schedVars>>

----------------------------------------------------------------------------
(* The clock *)

Tick ==
    /\ now + TickMs <= MaxTime
    /\ now' = now + TickMs
    /\ UNCHANGED <<mounted, resolved, bell, formVars, storeVars, schedVars>>

----------------------------------------------------------------------------
(* One mounted form driven against the stores.  The clock stands still: the     *)
(* whole run falls into one millisecond of Date.now().                           *)

Init ==
    /\ mounted = {"r1"}
    /\ InitForms
    /\ InitStores
    /\ InitBell

FormNext(f) ==
    \/ \E v \in StateChoices : SelectState(f, v)
    \/ \E v \in CityChoices : SelectCity(f, v)
    \/ \E v \in IssueChoices : SelectIssueType(f, v)
    \/ \E v \in TypedDescriptions \cup {""} : EditDescription(f, v)
    \/ RegisterNewComplaint(f)
    \/ \E file \in Files : handleMediaUpload(f, file)
    \/ ReaderLoadEnd(f)
    \/ \E resp \in AnalysisResponses : InvokeDone(f, resp)
    \/ handleSubmit(f)
    \/ \E o \in Outcomes : UploadDone(f, o)
    \/ \E o \in Outcomes : InsertDone(f, o)
    \/ \E o \in Outcomes : UpdateDone(f, o)
    \/ \E o \in Outcomes : AppendDone(f, o)

Next == \E f \in Forms : FormNext(f)

Spec == Init /\ [][Next]_vars

----------------------------------------------------------------------------
(* NotificationScheduler: notificationService.ts *)

Stages == <<"confirmation", "acknowledgement", "resolution">>
StageSet == {Stages[i] : i \in 1..3}

AckDelayMs == 5000
ResDelayMs == 30000

\* The arguments the scheduler is armed with
ArmTargets ==
    {[complaintId |-> 1, complaintCode |-> <<"NGR", 1>>, issueType |-> "electricity"],
     [complaintId |-> 2, complaintCode |-> <<"NGR", 2>>, issueType |-> "others"]}

\* A stage of one arm call.  st: "none" (not yet scheduled), "timer" (setTimeout
\* pending), "inflight" (the insert of createNotification awaited), "ok" (row
\* inserted), "failed" (error result or rejection, logged)
NoJob == [st |-> "none", fireAt |-> 0]

\* The row createNotification inserts; the table keeps the rows in insertion order
NotificationRow(arm, stage) ==
    [complaint_id |-> arm.complaintId, complaint_code |-> arm.complaintCode,
     stage |-> stage,
     message |-> IF stage = "confirmation"
                   THEN <<stage, arm.complaintCode, arm.issueType>>
                   ELSE <<stage, arm.complaintCode>>,
     user_id |-> "anonymous", is_read |-> FALSE]

\* createNotification taking its arguments from a variable the calls share, which
\* holds those of the latest createComplaintNotifications call
createNotificationSharedArgs(a, stage, outcome) ==
    /\ notifications' = IF outcome = "ok"
                          THEN Append(notifications, NotificationRow(arms[Len(arms)], stage))
                          ELSE notifications

\* createNotification's insert returns: a row on success, a console.error otherwise
createNotification(a, stage, outcome) ==
    /\ notifications' = IF outcome = "ok"
                          THEN Append(notifications, NotificationRow(arms[a], stage))
                          ELSE notifications

\* createComplaintNotifications is called: up to the await of the confirmation insert
createComplaintNotifications(target) ==
    /\ Len(arms) < MaxArms
    /\ arms' = Append(arms,
          [complaintId |-> target.complaintId, complaintCode |-> target.complaintCode,
           issueType |-> target.issueType, armedAt |-> now, returned |-> FALSE,
           job |-> [s \in StageSet |->
                      IF s = "confirmation"
                        THEN [st |-> "inflight", fireAt |-> now]
                        ELSE NoJob]])
    /\ UNCHANGED <<mounted, resolved, bell, formVars, now, storeVars, notifications>>

\* ConfirmationDone with the two setTimeout calls reached only when the
\* confirmation insert succeeded, as if createNotification let its error through
ConfirmationDoneOnlyOnSuccess(a, outcome) ==
    /\ a \in 1..Len(arms)
    /\ arms[a].job["confirmation"].st = "inflight"
    /\ createNotification(a, "confirmation", outcome)
    /\ arms' = [arms EXCEPT
          ![a].returned = TRUE,
          ![a].job = [s \in StageSet |->
              IF s = "confirmation"
                THEN [@[s] EXCEPT !.st = IF outcome = "ok" THEN "ok" ELSE "failed"]
              ELSE IF outcome # "ok"
                THEN @[s]
              ELSE IF s = "acknowledgement"
                THEN [st |-> "timer", fireAt |-> now + AckDelayMs]
              ELSE [st |-> "timer", fireAt |-> now + ResDelayMs]]]
    /\ UNCHANGED <<mounted, resolved, bell, formVars, now, storeVars>>

\* The confirmation insert returns; the two setTimeout calls follow and the
\* promise of createComplaintNotifications resolves
ConfirmationDone(a, outcome) ==
    /\ a \in 1..Len(arms)
    /\ arms[a].job["confirmation"].st = "inflight"
    /\ createNotification(a, "confirmation", outcome)
    /\ arms' = [arms EXCEPT
          ![a].returned = TRUE,
          ![a].job = [s \in StageSet |->
              IF s = "confirmation"
                THEN [@[s] EXCEPT !.st = IF outcome = "ok" THEN "ok" ELSE "failed"]
              ELSE IF s = "acknowledgement"
                THEN [st |-> "timer", fireAt |-> now + AckDelayMs]
              ELSE [st |-> "timer", fireAt |-> now + ResDelayMs]]]
    /\ UNCHANGED <<mounted, resolved, bell, formVars, now, storeVars>>

\* Timers run in the order they fall due
PendingTimers == {<<a, s>> \in (1..Len(arms)) \X StageSet : arms[a].job[s].st = "timer"}

\* A timer callback runs: createNotification is called, up to the await of its insert
TimerFire(a, stage) ==
    /\ <<a, stage>> \in PendingTimers
    /\ now >= arms[a].job[stage].fireAt
    /\ \A p \in PendingTimers : arms[p[1]].job[p[2]].fireAt >= arms[a].job[stage].fireAt
    /\ arms' = [arms EXCEPT ![a].job[stage].st = "inflight"]
    /\ UNCHANGED <<mounted, resolved, bell, formVars, now, storeVars, notifications>>

\* StageDone with a failed insert scheduled again, as a retry loop would
StageDoneRetrying(a, stage, outcome) ==
    /\ a \in 1..Len(arms)
    /\ stage # "confirmation"
    /\ arms[a].job[stage].st = "inflight"
    /\ createNotification(a, stage, outcome)
    /\ arms' = [arms EXCEPT ![a].job[stage] =
                   IF outcome = "ok" THEN [@ EXCEPT !.st = "ok"]
                                     ELSE [st |-> "timer", fireAt |-> now]]
    /\ UNCHANGED <<mounted, resolved, bell, formVars, now, storeVars>>

\* The insert of a timer callback's createNotification returns
StageDone(a, stage, outcome) ==
    /\ a \in 1..Len(arms)
    /\ stage # "confirmation"
    /\ arms[a].job[stage].st = "inflight"
    /\ createNotification(a, stage, outcome)
    /\ arms' = [arms EXCEPT ![a].job[stage].st = IF outcome = "ok" THEN "ok" ELSE "failed"]
    /\ UNCHANGED <<mounted, resolved, bell, formVars, now, storeVars>>

SchedInit ==
    /\ mounted = {}
    /\ InitForms
    /\ InitStores
    /\ InitBell

SchedNext ==
    \/ \E target \in ArmTargets : createComplaintNotifications(target)
    \/ \E a \in 1..MaxArms, o \in Outcomes : ConfirmationDone(a, o)
    \/ \E a \in 1..MaxArms, s \in StageSet : TimerFire(a, s)
    \/ \E a \in 1..MaxArms, s \in StageSet, o \in Outcomes : StageDone(a, s, o)
    \/ Tick

SchedSpec == SchedInit /\ [][SchedNext]_vars

----------------------------------------------------------------------------
(* The routed and the plain component, one of them mounted *)

BothInit ==
    /\ mounted \in {{"r1"}, {"p1"}}
    /\ InitForms
    /\ InitStores
    /\ InitBell

BothSpec == BothInit /\ [][Next]_vars

----------------------------------------------------------------------------
(* Properties *)

\* The submission a form last ran has returned
Finished(f) == f \in mounted /\ sub[f].pc = "idle" /\ sub[f].toast # Null

\* The writes of kind w a handleSubmit call has made
WritesOf(s, w) == {k \in 1..Len(s.writes) : s.writes[k] = w}

\* The StatusUpdate rows of a complaint
StatusRows(id) == {k \in 1..Len(statusUpdates) : statusUpdates[k].complaint_id = id}

\* C1: a submit with state, city, issueType or description empty ends in the
\* 'Missing Information' toast with no call made: the blob store, the complaints,
\* the status updates, the scheduler and the notifications are what they were, no
\* request is in flight, and the component (still on the 'form' step) is unchanged.
C1_ValidationFailedNoEffect ==
    [][\A f \in Forms :
         ( /\ sub[f].pc = "idle"
           /\ sub'[f] # sub[f]
           /\ \/ form[f].formData.state = ""
              \/ form[f].formData.city = ""
              \/ form[f].formData.issueType = ""
              \/ form[f].formData.description = "" )
         => /\ sub'[f].pc = "idle"
            /\ sub'[f].toast = "missing"
            /\ sub'[f].writes = <<>>
            /\ form' = form
            /\ form[f].step = "form"
            /\ UNCHANGED <<storeVars, schedVars>>]_vars

C1_Witness ==
    \E f \in Forms :
        /\ sub[f].toast = "missing"
        /\ form[f].formData.state # ""
        /\ form[f].formData.city = ""
        /\ form[f].formData.description # ""

\* The authority the routing policy names for an issue type of the closed set
ClaimedAuthority(issue) ==
    CASE issue = "electricity" -> "Electricity Department"
      [] issue \in {"water", "drainage"} -> "Jal Board / Water Supply Department"
      [] issue = "garbage" -> "Nagar Nigam / Municipal Corporation"
      [] issue = "pothole" -> "Public Works Department (PWD)"
      [] issue = "streetlight"
           -> "Nagar Nigam / Municipal Corporation (Street Lighting Division)"
      [] issue = "noise" -> "Pollution Control Board / Local Police Authority"
      [] OTHER -> Null

\* The receipt of f's last submission: the code on screen is the code of the one row
\* the submission inserted, no other row carries it, and the row is Pending or Assigned
Receipt(f) ==
    /\ sub[f].toast = "submitted"
    /\ Cardinality(WritesOf(sub[f], "complaint")) = 1
    /\ sub[f].rowId \in 1..Len(complaints)
    /\ form[f].complaintId # NoCode
    /\ \A i \in 1..Len(complaints) :
          complaints[i].complaint_code = form[f].complaintId <=> i = sub[f].rowId
    /\ complaints[sub[f].rowId].status \in {"Pending", "Assigned"}

\* C2 as stated: every submission that passes validation returns such a receipt.
C2_EveryValidSubmissionReceipt ==
    \A f \in Forms : (Finished(f) /\ sub[f].toast # "missing") => Receipt(f)

\* C2, amended: every submission that passes validation and ends in success shows a
\* code that no other row carries, the code of the one row the submission inserted,
\* and that row is Pending or Assigned.
C2_SuccessfulSubmissionReceipt ==
    \A f \in Forms : (Finished(f) /\ sub[f].toast = "submitted") => Receipt(f)

C2_Witness ==
    \E f \in Forms : Finished(f) /\ sub[f].toast = "submitted" /\ sub[f].rowId = 2

\* The row of f's last submission is routed as the policy says: assigned to the
\* mapped authority with exactly one StatusUpdate row (Assigned, authority), or, with
\* no authority mapped, Pending, unassigned and without StatusUpdate rows
RoutedAsClaimed(f) ==
    LET id == sub[f].rowId
        row == complaints[id]
        authority == ClaimedAuthority(row.issue_type)
    IN IF authority # Null
         THEN /\ row.status = "Assigned"
              /\ row.assigned_to = authority
              /\ Cardinality(StatusRows(id)) = 1
              /\ \A k \in StatusRows(id) :
                    /\ statusUpdates[k].status = "Assigned"
                    /\ statusUpdates[k].assigned_to = authority
         ELSE /\ row.status = "Pending"
              /\ row.assigned_to = Null
              /\ StatusRows(id) = {}

\* C3 as stated: after every successful submission the row is routed as the policy says.
C3_RoutedAfterSubmission ==
    \A f \in RoutedForms :
        (Finished(f) /\ sub[f].toast = "submitted") => RoutedAsClaimed(f)

\* C3, amended: after a successful submission neither of whose routing writes
\* returned an error, a row whose issue type matches a routing rule is Assigned to
\* the mapped authority with exactly one StatusUpdate row (Assigned, authority), and
\* a row of issue type 'others' is Pending, unassigned, without StatusUpdate row.
C3_RoutedWhenWritesSucceed ==
    \A f \in RoutedForms :
        (Finished(f) /\ sub[f].toast = "submitted" /\ sub[f].ignored = {})
            => RoutedAsClaimed(f)

C3_Witness ==
    \E f \in RoutedForms :
        /\ Finished(f) /\ sub[f].toast = "submitted" /\ sub[f].ignored = {}
        /\ complaints[sub[f].rowId].issue_type = "electricity"
        /\ complaints[sub[f].rowId].assigned_to = "Electricity Department"
        /\ Len(statusUpdates) = 1

\* C4: once no submission is between its insert and its end, a Complaint is
\* Assigned to a if and only if exactly one StatusUpdate row (Assigned, a) exists
\* for it.
C4_AssignedIffOneStatusUpdate ==
    (\A f \in Forms : sub[f].pc \notin {"update", "append"})
        => \A id \in 1..Len(complaints) :
             \A a \in {complaints[id].assigned_to}
                         \cup {statusUpdates[k].assigned_to : k \in StatusRows(id)} :
                a # Null =>
                  ( (complaints[id].status = "Assigned" /\ complaints[id].assigned_to = a)
                    <=> Cardinality({k \in StatusRows(id) :
                                        /\ statusUpdates[k].status = "Assigned"
                                        /\ statusUpdates[k].assigned_to = a}) = 1 )

\* C5: a submission that has inserted its Complaint row ends in success, with the
\* generated code on screen.
C5_SuccessOnceInserted ==
    \A f \in Forms :
        (Finished(f) /\ WritesOf(sub[f], "complaint") # {})
            => /\ sub[f].toast = "submitted"
               /\ form[f].complaintId = sub[f].code

\* C6: a submission that ends at a failed upload or a failed insert has written nothing.
C6_FailureLeavesNothing ==
    \A f \in Forms :
        (Finished(f) /\ sub[f].failedAt \in {"upload", "insert"})
            => sub[f].writes = <<>>

\* C7: a Complaint row is inserted with a media_url exactly when media was attached,
\* and then that URL is the public URL of a blob already in the store holding the
\* attached file; a failed upload ends the call with 'Submission Failed' and no row;
\* every stored media_url refers to a stored blob.
C7_MediaStoredBeforeComplaint ==
    [][/\ \A f \in Forms :
            /\ (sub[f].pc = "insert" /\ Len(complaints') = Len(complaints) + 1)
                 => LET row == complaints'[Len(complaints')] IN
                    /\ sub[f].snap.media # NoFile <=> row.media_url # NoName
                    /\ row.media_url # NoName
                         => \E b \in blobs : /\ getPublicUrl(b.name) = row.media_url
                                             /\ b.file = sub[f].snap.media
            /\ (sub[f].pc = "upload" /\ sub'[f] # sub[f]
                                     /\ sub'[f].writes = sub[f].writes)
                 => /\ sub'[f].pc = "idle"
                    /\ sub'[f].toast = "failed"
                    /\ complaints' = complaints
       /\ \A i \in 1..Len(complaints') :
            complaints'[i].media_url # NoName
              => \E b \in blobs' : getPublicUrl(b.name) = complaints'[i].media_url]_vars

C7_Witness ==
    \E i \in 1..Len(complaints) :
        /\ complaints[i].media_url # NoName
        /\ \E b \in blobs : getPublicUrl(b.name) = complaints[i].media_url

\* C8: when the insert of the Complaint row fails, the call ends there with
\* 'Submission Failed': no row, no status update, no StatusUpdate row, no arming,
\* no notification, isSubmitting released and the form still on the 'form' step.
C8_InsertFailureAborts ==
    [][\A f \in Forms :
         (sub[f].pc = "insert" /\ sub'[f] # sub[f] /\ Len(complaints') = Len(complaints))
           => /\ sub'[f].pc = "idle"
              /\ sub'[f].toast = "failed"
              /\ sub'[f].failedAt = "insert"
              /\ form'[f].step = "form"
              /\ ~form'[f].isSubmitting
              /\ form'[f].complaintId = form[f].complaintId
              /\ UNCHANGED <<complaints, statusUpdates, schedVars>>]_vars

C8_Witness ==
    \E f \in Forms : Finished(f) /\ sub[f].failedAt = "insert" /\ form[f].step = "form"

\* C9: after a successful submission createComplaintNotifications has been called
\* exactly once with the id and the code of the new complaint.
C9_ArmedOncePerSubmission ==
    \A f \in Forms :
        (Finished(f) /\ sub[f].toast = "submitted")
            => Cardinality({a \in 1..Len(arms) :
                              /\ arms[a].complaintId = sub[f].rowId
                              /\ arms[a].complaintCode = sub[f].code}) = 1

\* C10: within one arm call no later stage is persisted while an earlier stage is
\* still to be persisted (its timer pending or its insert in flight).
C10_StagesPersistedInOrder ==
    \A a \in 1..Len(arms) :
        \A i, j \in 1..3 :
            (i < j /\ arms[a].job[Stages[j]].st = "ok")
                => arms[a].job[Stages[i]].st \in {"ok", "failed"}

----------------------------------------------------------------------------
(* The scheduler under the scheduling of its runtime: the clock advances, a    *)
(* timer that has fallen due runs its callback, and an awaited insert returns  *)
(* (with a row, an error result or a rejection).                               *)

SchedFairness ==
    /\ WF_vars(Tick)
    /\ \A a \in 1..MaxArms :
         /\ WF_vars(\E o \in Outcomes : ConfirmationDone(a, o))
         /\ \A s \in StageSet :
              /\ WF_vars(TimerFire(a, s))
              /\ WF_vars(\E o \in Outcomes : StageDone(a, s, o))

\* SchedNext with createComplaintNotifications called MaxFairArms times at most
SchedFairNext ==
    \/ /\ Len(arms) < MaxFairArms
       /\ \E target \in ArmTargets : createComplaintNotifications(target)
    \/ \E a \in 1..MaxArms, o \in Outcomes : ConfirmationDone(a, o)
    \/ \E a \in 1..MaxArms, s \in StageSet : TimerFire(a, s)
    \/ \E a \in 1..MaxArms, s \in StageSet, o \in Outcomes : StageDone(a, s, o)
    \/ Tick

SchedFairSpec == SchedInit /\ [][SchedFairNext]_vars /\ SchedFairness

\* The last instant the bounded clock reaches
LastTick == (MaxTime \div TickMs) * TickMs

\* The insert of a stage of arm call a has been started
Attempted(a, stage) == arms[a].job[stage].st \in {"inflight", "ok", "failed"}

\* C11: after createComplaintNotifications(complaintId, complaintCode, issueType)
\* the confirmation insert is under way at once, the call returns, and (for a call
\* whose timers fall due within the bounded clock) the insert of each of the three
\* stages is eventually started; a stage is attempted once (a finished stage never
\* runs again) and a pending timer can only run, never be cancelled.
C11_ThreeAttemptsNoCancel ==
    /\ [][\A a \in 1..Len(arms') :
            IF a > Len(arms)
              THEN /\ arms'[a].job["confirmation"].st = "inflight"
                   /\ \A s \in StageSet \ {"confirmation"} : arms'[a].job[s].st = "none"
              ELSE \A s \in StageSet :
                     \/ arms'[a].job[s].st = arms[a].job[s].st
                     \/ arms[a].job[s].st = "none" /\ arms'[a].job[s].st = "timer"
                     \/ arms[a].job[s].st = "timer" /\ arms'[a].job[s].st = "inflight"
                     \/ arms[a].job[s].st = "inflight"
                          /\ arms'[a].job[s].st \in {"ok", "failed"}]_vars
    /\ \A a \in 1..MaxArms :
         /\ (a <= Len(arms)) ~> (a <= Len(arms) /\ arms[a].returned)
         /\ (a <= Len(arms) /\ arms[a].returned
                /\ arms[a].job["resolution"].fireAt <= LastTick)
              ~> (a <= Len(arms) /\ \A s \in StageSet : Attempted(a, s))

C11_Witness ==
    \E a \in 1..Len(arms) :
        /\ arms[a].job["confirmation"].st = "ok"
        /\ arms[a].job["acknowledgement"].st = "ok"
        /\ arms[a].job["resolution"].st = "ok"
        /\ Cardinality({k \in 1..Len(notifications) :
                           notifications[k].complaint_id = arms[a].complaintId}) = 3

\* C12: for any complaint at most one Notification row exists per stage, however
\* often createComplaintNotifications is called for it.
C12_OneNotificationPerStage ==
    \A i, j \in 1..Len(notifications) :
        ( /\ notifications[i].complaint_id = notifications[j].complaint_id
          /\ notifications[i].stage = notifications[j].stage ) => i = j

\* C13: a confirmation insert that fails (error result or rejection) is followed by
\* both setTimeout calls, a failing acknowledgement insert leaves the resolution
\* stage as it was, and (for a call whose timers fall due within the bounded clock)
\* the inserts of the stages after a failed one are eventually started.
C13_FailureDoesNotBlockLaterStages ==
    /\ [][\A a \in 1..Len(arms) :
            /\ ( /\ arms[a].job["confirmation"].st = "inflight"
                 /\ arms'[a].job["confirmation"].st = "failed" )
                 => /\ arms'[a].job["acknowledgement"] =
                          [st |-> "timer", fireAt |-> now + 5000]
                    /\ arms'[a].job["resolution"] =
                          [st |-> "timer", fireAt |-> now + 30000]
            /\ ( /\ arms[a].job["acknowledgement"].st = "inflight"
                 /\ arms'[a].job["acknowledgement"].st = "failed" )
                 => arms'[a].job["resolution"] = arms[a].job["resolution"]]_vars
    /\ \A a \in 1..MaxArms :
         /\ ( /\ a <= Len(arms)
              /\ arms[a].job["confirmation"].st = "failed"
              /\ arms[a].job["resolution"].fireAt <= LastTick )
              ~> ( /\ a <= Len(arms)
                   /\ Attempted(a, "acknowledgement")
                   /\ Attempted(a, "resolution") )
         /\ ( /\ a <= Len(arms)
              /\ arms[a].job["acknowledgement"].st = "failed"
              /\ arms[a].job["resolution"].fireAt <= LastTick )
              ~> (a <= Len(arms) /\ Attempted(a, "resolution"))

C13_Witness ==
    \E a \in 1..Len(arms) :
        /\ arms[a].job["confirmation"].st = "failed"
        /\ arms[a].job["acknowledgement"].st = "failed"
        /\ arms[a].job["resolution"].st = "ok"
        /\ \E k \in 1..Len(notifications) :
              /\ notifications[k].complaint_id = arms[a].complaintId
              /\ notifications[k].stage = "resolution"

----------------------------------------------------------------------------
(* The media gate under the scheduling of its runtime: the FileReader finishes. *)
(* Nothing bounds the wait for functions.invoke, so its return is not assured.  *)

GateFairSpec == Init /\ [][Next]_vars /\ \A f \in Forms : WF_vars(ReaderLoadEnd(f))

\* The step in which the classification call of form f returns
AnalysisReturns(f) == ana[f].pc = "invoking" /\ ana'[f].pc = "idle"

\* C14: when the classification answers {is_relevant: false, reason: R} the held
\* media is cleared and the description is what it was before the upload attempt.
C14_IrrelevantKeepsDescription ==
    [][\A f \in Forms :
         (AnalysisReturns(f) /\ ana'[f].toast = "irrelevant")
            => /\ form'[f].formData.media = NoFile
               /\ form'[f].formData.description = ana[f].before]_vars

\* C15: when the classification answers {is_relevant: true, description: D} the
\* description becomes D, the uploaded file stays attached and the textarea is
\* enabled again; a submission takes the description the form holds when Submit is
\* clicked, and that description is what its row stores.
C15_RelevantFillsDescription ==
    [][\A f \in Forms :
         /\ (AnalysisReturns(f) /\ ana'[f].toast = "analyzed")
              => /\ form'[f].formData.description = "ai"
                 /\ form'[f].formData.media = ana[f].file
                 /\ ~form'[f].isAnalyzing
         /\ (sub[f].pc = "idle" /\ sub'[f].pc \in {"upload", "insert"})
              => sub'[f].snap = form[f].formData
         /\ (sub[f].pc = "insert" /\ Len(complaints') = Len(complaints) + 1)
              => complaints'[Len(complaints')].description = sub[f].snap.description]_vars

\* C16: a submission uploads the held media as evidence only if that media was
\* found relevant to the issue type being submitted.
C16_EvidenceWasFoundRelevant ==
    [][\A f \in Forms :
         (sub[f].pc = "idle" /\ sub'[f].pc = "upload")
            => ana[f].checked = form[f].formData.issueType]_vars

\* C17: a classification call that returns anything but a well-formed relevant or
\* irrelevant answer ends in 'AI Analysis Failed', not in the irrelevant-image
\* outcome, with isAnalyzing released; after it a submit of a complete form proceeds.
C17_AnalysisFailedDegradesToManual ==
    [][\A f \in Forms :
         /\ (AnalysisReturns(f) /\ ana'[f].toast \notin {"analyzed", "irrelevant"})
              => /\ ana'[f].toast = "analysis-failed"
                 /\ form'[f].formData.media = form[f].formData.media
                 /\ ~form'[f].isAnalyzing
         /\ ( /\ ana[f].toast \notin {Null, "select-issue-type", "analyzed", "irrelevant"}
              /\ sub[f].pc = "idle" /\ sub'[f] # sub[f]
              /\ form[f].formData.state # "" /\ form[f].formData.city # ""
              /\ form[f].formData.issueType # "" /\ form[f].formData.description # "" )
              => sub'[f].pc \in {"upload", "insert"}]_vars

\* C18: an analysis that has started always ends: isAnalyzing is released even when
\* the classification service never answers.
C18_AnalysisAlwaysEnds ==
    \A f \in Forms : form[f].isAnalyzing ~> ~form[f].isAnalyzing

\* C19: attaching a file while no issue type is chosen ends in the 'Please select
\* an issue type first' toast: no FileReader, no classification call, isAnalyzing not
\* set, and the form (media and description included) and the stores unchanged.
C19_NoIssueTypeNoAnalysis ==
    [][\A f \in Forms :
         ( /\ ana[f].pc = "idle" /\ ana'[f] # ana[f]
           /\ form[f].step = "form"
           /\ form[f].formData.issueType = "" )
           => /\ ana'[f].pc = "idle"
              /\ ana'[f].toast = "select-issue-type"
              /\ ana'[f].calls = 0
              /\ form' = form
              /\ UNCHANGED <<storeVars, schedVars>>]_vars

C19_Witness ==
    \E f \in Forms :
        /\ ana[f].pc = "idle" /\ ana[f].toast = "select-issue-type"
        /\ form[f].formData.issueType = ""
        /\ form[f].formData.media = NoFile
        /\ form[f].formData.description = "typed"
        /\ ~form[f].isAnalyzing

----------------------------------------------------------------------------
(* The submission pipeline next to the operator tooling that drives the later   *)
(* transitions of a complaint                                                    *)

\* Pending -> Assigned -> InProgress -> Resolved -> Closed
StatusOrder == <<"Pending", "Assigned", "InProgress", "Resolved", "Closed">>

StatusRank(status) == CHOOSE k \in 1..Len(StatusOrder) : StatusOrder[k] = status

\* An operator moves a complaint to the next status and appends its StatusUpdate row
OperatorAdvance(id) ==
    /\ id \in 1..Len(complaints)
    /\ StatusRank(complaints[id].status) < Len(StatusOrder)
    /\ Cardinality({k \in 1..Len(statusUpdates) :
                       statusUpdates[k].note = "operator"}) < MaxOperatorMoves
    /\ LET next == StatusOrder[StatusRank(complaints[id].status) + 1] IN
       /\ complaints' = [complaints EXCEPT ![id].status = next]
       /\ statusUpdates' = Append(statusUpdates,
              [complaint_id |-> id, status |-> next,
               assigned_to |-> complaints[id].assigned_to, note |-> "operator"])
    /\ UNCHANGED <<mounted, resolved, bell, formVars, now, blobs, schedVars>>

\* A form submitted without media
SubmitNext(f) ==
    \/ \E v \in StateChoices : SelectState(f, v)
    \/ \E v \in CityChoices : SelectCity(f, v)
    \/ \E v \in IssueChoices : SelectIssueType(f, v)
    \/ \E v \in TypedDescriptions : EditDescription(f, v)
    \/ RegisterNewComplaint(f)
    \/ handleSubmit(f)
    \/ \E o \in Outcomes : InsertDone(f, o)
    \/ \E o \in Outcomes : UpdateDone(f, o)
    \/ \E o \in Outcomes : AppendDone(f, o)

OperatorNext ==
    \/ \E f \in Forms : SubmitNext(f)
    \/ \E id \in 1..MaxComplaints : OperatorAdvance(id)

OperatorSpec == Init /\ [][OperatorNext]_vars

\* C20: the status of a Complaint only moves forward along Pending -> Assigned ->
\* InProgress -> Resolved -> Closed: no write, the pipeline's routing update
\* included, takes a complaint back to an earlier status.
C20_StatusOnlyAdvances ==
    [][\A id \in 1..Len(complaints) :
         StatusRank(complaints'[id].status) >= StatusRank(complaints[id].status)]_vars

----------------------------------------------------------------------------
(* RoutingResolver called on its own, over the closed issue-type set and some   *)
(* tokens outside it                                                             *)

ResolveInputs == IssueTypes \cup {"Electricity", "ROAD", "transport"}

\* A resolver that answers a token only the first time it is asked about it
resolveOnce(issue) ==
    /\ Len(resolved) < MaxResolveCalls
    /\ resolved' = Append(resolved,
          <<issue, IF \E k \in 1..Len(resolved) : resolved[k][1] = issue
                     THEN Null ELSE mapAuthorityForIssue(issue)>>)
    /\ UNCHANGED <<mounted, bell, formVars, now, storeVars, schedVars>>

\* mapAuthorityForIssue(issue) is called and returns
resolve(issue) ==
    /\ Len(resolved) < MaxResolveCalls
    /\ resolved' = Append(resolved, <<issue, mapAuthorityForIssue(issue)>>)
    /\ UNCHANGED <<mounted, bell, formVars, now, storeVars, schedVars>>

ResolverNext == \E issue \in ResolveInputs : resolve(issue)

ResolverSpec == SchedInit /\ [][ResolverNext]_vars

\* C22: over the closed issue-type set mapAuthorityForIssue returns: electricity ->
\* 'Electricity Department'; water, drainage -> 'Jal Board / Water Supply
\* Department'; garbage -> 'Nagar Nigam / Municipal Corporation'; pothole -> 'Public
\* Works Department (PWD)'; streetlight -> 'Nagar Nigam / Municipal Corporation
\* (Street Lighting Division)'; noise -> 'Pollution Control Board / Local Police
\* Authority'; others -> no authority.
C22_ResolveTable ==
    \A k \in 1..Len(resolved) :
        LET issue == resolved[k][1]
            result == resolved[k][2]
        IN /\ issue = "electricity" => result = "Electricity Department"
           /\ issue = "water" => result = "Jal Board / Water Supply Department"
           /\ issue = "drainage" => result = "Jal Board / Water Supply Department"
           /\ issue = "garbage" => result = "Nagar Nigam / Municipal Corporation"
           /\ issue = "pothole" => result = "Public Works Department (PWD)"
           /\ issue = "streetlight"
                => result = "Nagar Nigam / Municipal Corporation (Street Lighting Division)"
           /\ issue = "noise" => result = "Pollution Control Board / Local Police Authority"
           /\ issue = "others" => result = Null

C22_Witness ==
    /\ Len(resolved) = 2
    /\ resolved[1] = <<"streetlight",
                       "Nagar Nigam / Municipal Corporation (Street Lighting Division)">>
    /\ resolved[2] = <<"others", Null>>

----------------------------------------------------------------------------
(* Two clients submitting against the same stores, each with its form filled    *)
(* in and an analysed image attached, and the clock running                      *)

\* A form after state, city and issue type were chosen and the attached image was
\* found relevant
ReadyForm ==
    [InitialForm EXCEPT !.formData =
        [state |-> "Delhi", city |-> "Delhi", issueType |-> "electricity",
         description |-> AiDescription, media |-> <<"photo", "jpg">>]]

ReadyAnalysis ==
    [IdleAnalysis EXCEPT !.checked = "electricity", !.calls = 1, !.toast = "analyzed"]

ConcurrentInit ==
    /\ mounted = RoutedForms
    /\ form = [f \in Forms |-> IF f \in RoutedForms THEN ReadyForm ELSE InitialForm]
    /\ sub  = [f \in Forms |-> IdleSubmit]
    /\ ana  = [f \in Forms |-> IF f \in RoutedForms THEN ReadyAnalysis ELSE IdleAnalysis]
    /\ InitStores
    /\ InitBell

ConcurrentNext ==
    \/ \E f \in Forms :
         \/ handleSubmit(f)
         \/ \E o \in Outcomes : UploadDone(f, o)
         \/ \E o \in Outcomes : InsertDone(f, o)
         \/ \E o \in Outcomes : UpdateDone(f, o)
         \/ \E o \in Outcomes : AppendDone(f, o)
    \/ now < MaxUploadTime /\ Tick

ConcurrentSpec == ConcurrentInit /\ [][ConcurrentNext]_vars

\* The state ConcurrentInit gives a form is one the form reaches from its initial state
ReadyFormReached ==
    \E f \in Forms : form[f] = ReadyForm /\ ana[f] = ReadyAnalysis /\ sub[f] = IdleSubmit

\* C21: the blob name a submission takes for its upload is the name of no blob in
\* the store and of no upload another submission has under way.
C21_BlobNameUnique ==
    [][\A f \in Forms :
         (sub[f].pc = "idle" /\ sub'[f].pc = "upload")
           => /\ \A b \in blobs : b.name # sub'[f].fileName
              /\ \A g \in Forms \ {f} :
                    sub[g].pc = "upload" => sub[g].fileName # sub'[f].fileName]_vars

----------------------------------------------------------------------------
(* NotificationScheduler: arming, delays, independence of the schedules *)

\* C24: a call of createComplaintNotifications has returned to its caller (its
\* promise has settled, fulfilled) whatever the state of its inserts: the caller
\* never waits for a Notification to be persisted.
C24_ArmReturnsWithoutWaiting ==
    \A a \in 1..Len(arms) : arms[a].returned

\* C25: the delays are measured from the call of createComplaintNotifications: the
\* confirmation insert starts at T, the acknowledgement timer is due at T + 5 s and
\* the resolution timer at T + 30 s, however long the confirmation insert takes.
C25_DelaysFromArming ==
    \A a \in 1..Len(arms) :
        /\ arms[a].job["confirmation"].fireAt = arms[a].armedAt
        /\ arms[a].job["acknowledgement"].st # "none"
             => arms[a].job["acknowledgement"].fireAt = arms[a].armedAt + 5000
        /\ arms[a].job["resolution"].st # "none"
             => arms[a].job["resolution"].fireAt = arms[a].armedAt + 30000

\* The Notification rows of stage s that carry the id and the code of arm call a
RowsOfArm(a, s) ==
    {k \in 1..Len(notifications) :
        /\ notifications[k].complaint_id = arms[a].complaintId
        /\ notifications[k].complaint_code = arms[a].complaintCode
        /\ notifications[k].stage = s
        /\ notifications[k].message[2] = arms[a].complaintCode}

\* C28: under every interleaving of the timers and inserts of the armed
\* complaints, every Notification row carries the complaintId and complaintCode of
\* a call whose insert of that stage succeeded, a complaint has as many rows of a
\* stage as calls for it persisted that stage, and every call that has set its
\* timers has its own three stages.
C28_SchedulesIndependent ==
    /\ \A k \in 1..Len(notifications) :
          \E a \in 1..Len(arms) :
              /\ k \in RowsOfArm(a, notifications[k].stage)
              /\ arms[a].job[notifications[k].stage].st = "ok"
    /\ \A a \in 1..Len(arms) : \A s \in StageSet :
          Cardinality(RowsOfArm(a, s))
             = Cardinality({b \in 1..Len(arms) :
                               /\ arms[b].complaintId = arms[a].complaintId
                               /\ arms[b].job[s].st = "ok"})
    /\ \A a \in 1..Len(arms) :
          arms[a].returned => \A s \in StageSet : arms[a].job[s].st # "none"

C28_Witness ==
    /\ Len(arms) = 2
    /\ arms[1].complaintId # arms[2].complaintId
    /\ \A a \in 1..2 : \A s \in StageSet : arms[a].job[s].st = "ok"
    /\ Len(notifications) = 6
    /\ notifications[3].stage = "acknowledgement"
    /\ notifications[4].stage = "resolution"
    /\ notifications[5].stage = "acknowledgement"
    /\ notifications[3].complaint_id # notifications[4].complaint_id

----------------------------------------------------------------------------
(* Requests per upload, writes per submit, the in-flight flags *)

\* C26: an accepted upload makes one classification request at most: the request
\* leaves when the file has been read, and when the call returns (relevant,
\* irrelevant or failed) the handler ends without sending it again.
C26_OneClassificationRequest ==
    [][\A f \in Forms :
         /\ ana'[f].calls <= 1
         /\ ana'[f].calls # ana[f].calls
              => \/ ana[f].pc = "reading" /\ ana'[f].pc = "invoking" /\ ana[f].calls = 0
                 \/ ana[f].pc = "idle" /\ ana'[f].calls = 0
         /\ ana[f].pc = "invoking" /\ ana'[f] # ana[f]
              => ana'[f].pc = "idle" /\ ana'[f].calls = ana[f].calls]_vars

C26_Witness ==
    \E f \in Forms :
        /\ ana[f].pc = "idle" /\ ana[f].toast = "analysis-failed"
        /\ ana[f].calls = 1
        /\ form[f].formData.media # NoFile

\* C27: one submit makes at most one blob write and at most two store writes (the
\* Complaint insert and, when the complaint is routed, one further write).
C27_WritesPerSubmit ==
    \A f \in Forms :
        /\ Cardinality(WritesOf(sub[f], "blob")) <= 1
        /\ Cardinality({k \in 1..Len(sub[f].writes) : sub[f].writes[k] # "blob"}) <= 2

\* C29: a submit starts only while neither isSubmitting nor isAnalyzing is set, an
\* image is attached only while isAnalyzing is not set, while isAnalyzing is set the
\* description changes only by the analysis (or the reset of the form), and an
\* analysis result is applied only while no submit is in flight.
C29_OneInFlightPerForm ==
    [][\A f \in Forms :
         /\ (sub[f].pc = "idle" /\ sub'[f].pc # "idle")
              => ~form[f].isSubmitting /\ ~form[f].isAnalyzing
         /\ (ana[f].pc = "idle" /\ ana'[f].pc # "idle") => ~form[f].isAnalyzing
         /\ ( /\ form[f].isAnalyzing
              /\ form'[f].formData.description # form[f].formData.description )
              => AnalysisReturns(f) \/ form'[f].formData = InitialFormData
         /\ AnalysisReturns(f) => sub[f].pc = "idle"]_vars

----------------------------------------------------------------------------
(* The form under the scheduling of its runtime: every awaited call of          *)
(* handleSubmit returns (with a result, an error result or a rejection)          *)

\* A form after state, city and issue type were chosen
ChosenForm ==
    [InitialForm EXCEPT !.formData.state = "Delhi", !.formData.city = "Delhi",
                        !.formData.issueType = "electricity"]

SubmitFairInit ==
    /\ mounted = {"r1"}
    /\ form = [f \in Forms |-> IF f = "r1" THEN ChosenForm ELSE InitialForm]
    /\ sub  = [f \in Forms |-> IdleSubmit]
    /\ ana  = [f \in Forms |-> IdleAnalysis]
    /\ InitStores
    /\ InitBell

SubmitFairNext ==
    \E f \in Forms :
        \/ \E v \in TypedDescriptions \cup {""} : EditDescription(f, v)
        \/ RegisterNewComplaint(f)
        \/ \E file \in Files : handleMediaUpload(f, file)
        \/ ReaderLoadEnd(f)
        \/ \E resp \in AnalysisResponses : InvokeDone(f, resp)
        \/ handleSubmit(f)
        \/ \E o \in Outcomes : UploadDone(f, o)
        \/ \E o \in Outcomes : InsertDone(f, o)
        \/ \E o \in Outcomes : UpdateDone(f, o)
        \/ \E o \in Outcomes : AppendDone(f, o)

SubmitFairSpec ==
    /\ SubmitFairInit /\ [][SubmitFairNext]_vars
    /\ \A f \in Forms :
         /\ WF_vars(\E o \in Outcomes : UploadDone(f, o))
         /\ WF_vars(\E o \in Outcomes : InsertDone(f, o))
         /\ WF_vars(\E o \in Outcomes : UpdateDone(f, o))
         /\ WF_vars(\E o \in Outcomes : AppendDone(f, o))

\* C30: isSubmitting is set exactly while a handleSubmit call is in flight, every
\* such call ends (in success, at a failed upload, at a failed insert or at a
\* thrown routing write) and releases it, and a classification call that returns
\* releases isAnalyzing.
C30_FlagsReleased ==
    /\ [][\A f \in Forms :
            /\ (sub[f].pc # "idle" /\ sub'[f].pc = "idle") => ~form'[f].isSubmitting
            /\ (sub'[f].pc # "idle") => form'[f].isSubmitting
            /\ AnalysisReturns(f) => ~form'[f].isAnalyzing]_vars
    /\ \A f \in Forms : form[f].isSubmitting ~> ~form[f].isSubmitting

C30_Witness ==
    \E f \in Forms :
        /\ Finished(f) /\ sub[f].failedAt = "update"
        /\ ~form[f].isSubmitting
        /\ ana[f].toast = "irrelevant" /\ ~form[f].isAnalyzing

----------------------------------------------------------------------------
(* NotificationSystem.tsx: the bell that lists the reporter's notifications.   *)
(* The list is the mock list of fetchNotifications; the badge shows            *)
(* unreadCount, which is a React state of its own next to the list.            *)

UserIds == {"u1", "u2"}

\* Date.prototype.toISOString: the instant, to the millisecond, as text
toISOString(ms) == <<"iso", ms>>

\* the two rows built at lines 50-69, at Date.now() = t
mockNotifications(t) ==
    << [id |-> "1", complaint_id |-> "mock-1", complaint_code |-> "NGR123456",
        stage |-> "confirmation",
        message |-> "Your complaint NGR123456 for Street Light Issues has been registered successfully.",
        created_at |-> toISOString(t), is_read |-> FALSE],
       [id |-> "2", complaint_id |-> "mock-2", complaint_code |-> "NGR123457",
        stage |-> "acknowledgement",
        message |-> "Your complaint NGR123457 has been acknowledged and assigned to the appropriate department.",
        created_at |-> toISOString(t - 60000), is_read |-> FALSE] >>

\* list.filter(n => !n.is_read)
filterUnread(list) == SelectSeq(list, LAMBDA n : ~n.is_read)

\* Math.max(0, n)
MaxZero(n) == IF n < 0 THEN 0 ELSE n

\* fetchNotifications, lines 47-76: replaces the list by the mock list and sets
\* unreadCount from it; nothing in the try block throws
fetchNotifications(b) ==
    [b EXCEPT !.notifications = mockNotifications(now),
              !.unreadCount = Len(filterUnread(mockNotifications(now)))]

\* The effect of lines 29-45, run when the component is rendered with another
\* userId: the cleanup of the previous run removes its channel; with a userId
\* the effect fetches and subscribes, without one it does nothing.
useEffect(userId) ==
    /\ userId # bell.userId
    /\ bell' = IF userId # Null
               THEN [fetchNotifications(bell) EXCEPT !.userId = userId, !.channel = TRUE]
               ELSE [bell EXCEPT !.userId = userId, !.channel = FALSE]
    /\ UNCHANGED <<mounted, resolved, formVars, now, storeVars, schedVars>>

\* The channel reports a change of table notifications (any event, any row, of
\* any client): the callback of line 37 fetches again.
ChangeEvent ==
    /\ bell.channel
    /\ bell' = fetchNotifications(bell)
    /\ UNCHANGED <<mounted, resolved, formVars, now, storeVars, schedVars>>

\* markAsRead, lines 78-88: two functional state updates, no await between them
markAsRead(notificationId) ==
    /\ bell' = [bell EXCEPT
                  !.notifications =
                      [k \in 1..Len(@) |->
                          IF @[k].id = notificationId
                          THEN [@[k] EXCEPT !.is_read = TRUE]
                          ELSE @[k]],
                  !.unreadCount = MaxZero(@ - 1)]
    /\ UNCHANGED <<mounted, resolved, formVars, now, storeVars, schedVars>>

\* A click on a row of the open panel (line 160): read rows are clickable too
ClickNotification(k) ==
    /\ bell.showNotifications
    /\ k \in 1..Len(bell.notifications)
    /\ markAsRead(bell.notifications[k].id)

\* The bell button, line 121
ToggleNotifications ==
    /\ bell' = [bell EXCEPT !.showNotifications = ~@]
    /\ UNCHANGED <<mounted, resolved, formVars, now, storeVars, schedVars>>

\* The X button of the open panel, line 140
CloseNotifications ==
    /\ bell.showNotifications
    /\ bell' = [bell EXCEPT !.showNotifications = FALSE]
    /\ UNCHANGED <<mounted, resolved, formVars, now, storeVars, schedVars>>

BellNext ==
    \/ \E userId \in UserIds \cup {Null} : useEffect(userId)
    \/ ChangeEvent
    \/ \E k \in 1..2 : ClickNotification(k)
    \/ ToggleNotifications
    \/ CloseNotifications
    \/ Tick

BellSpec == SchedInit /\ [][BellNext]_vars

\* the number of rows of the list whose is_read is false
UnreadInList == Cardinality({k \in 1..Len(bell.notifications) : ~bell.notifications[k].is_read})

\* C31: after any sequence of fetchNotifications and markAsRead operations
\* (marking the same notification twice included) unreadCount equals the number
\* of notifications of the list whose is_read is false, and a markAsRead sets
\* is_read of exactly the notification with that id and leaves every other
\* notification, and every other field of that one, unchanged.
C31_UnreadCountMatchesList ==
    /\ [](bell.unreadCount = UnreadInList)
    /\ [][\A k \in 1..Len(bell.notifications) :
            ClickNotification(k) =>
               /\ Len(bell'.notifications) = Len(bell.notifications)
               /\ \A j \in 1..Len(bell.notifications) :
                    IF bell.notifications[j].id = bell.notifications[k].id
                    THEN bell'.notifications[j] =
                            [bell.notifications[j] EXCEPT !.is_read = TRUE]
                    ELSE bell'.notifications[j] = bell.notifications[j]]_vars

----------------------------------------------------------------------------
(* The two submission flows side by side: the routed component and the plain    *)
(* one, mounted together with the same form input, each submitting against the  *)
(* stores                                                                        *)

\* The form inputs both components can take: with or without a city, either
\* issue type, with the analysed image (and its description) or with a typed
\* description and no image
PairInputs ==
    { [state |-> "Delhi", city |-> c, issueType |-> i,
       description |-> IF m = NoFile THEN "typed" ELSE AiDescription, media |-> m] :
         c \in CityChoices \cup {""}, i \in IssueChoices, m \in Files \cup {NoFile} }

PairForms == {"r1", "p1"}

PairInit ==
    /\ mounted = PairForms
    /\ \E fd \in PairInputs :
         /\ form = [f \in Forms |-> IF f \in PairForms
                                      THEN [InitialForm EXCEPT !.formData = fd]
                                      ELSE InitialForm]
         /\ ana  = [f \in Forms |-> IF f \in PairForms /\ fd.media # NoFile
                                      THEN [IdleAnalysis EXCEPT !.checked = fd.issueType,
                                                                !.calls = 1,
                                                                !.toast = "analyzed"]
                                      ELSE IdleAnalysis]
    /\ sub  = [f \in Forms |-> IdleSubmit]
    /\ InitStores
    /\ InitBell

PairNext ==
    \E f \in Forms :
        \/ handleSubmit(f)
        \/ \E o \in Outcomes : UploadDone(f, o)
        \/ \E o \in Outcomes : InsertDone(f, o)
        \/ \E o \in Outcomes : UpdateDone(f, o)
        \/ \E o \in Outcomes : AppendDone(f, o)

PairSpec == PairInit /\ [][PairNext]_vars

\* The columns of a stored complaint that its insert payload gave it
InsertedColumns(id) ==
    [state |-> complaints[id].state, city |-> complaints[id].city,
     issue_type |-> complaints[id].issue_type,
     description |-> complaints[id].description,
     media_url |-> complaints[id].media_url]

\* What the caller sees of a finished call: success with a code, or a failure
CallerOutcome(f) ==
    IF form[f].step = "success" /\ form[f].complaintId # NoCode
      THEN "success-with-code"
      ELSE IF form[f].step = "success" THEN "success-without-code"
      ELSE IF sub[f].toast = "missing" THEN "missing-information"
      ELSE "failure"

\* Both calls are over and met the same pattern of upload and insert results
SamePattern ==
    /\ Finished("r1") /\ Finished("p1")
    /\ (sub["r1"].failedAt = "upload") <=> (sub["p1"].failedAt = "upload")
    /\ (sub["r1"].failedAt = "insert") <=> (sub["p1"].failedAt = "insert")

\* C32: for every form input and every pattern of upload and insert results the
\* routed submit and the plain submit make the same blob write and the same
\* complaint insert and end in the same caller-visible outcome (success with
\* code, or failure), and for issue type 'others' their store writes are the same.
C32_FlowsAgreeButRouting ==
    SamePattern =>
        /\ WritesOf(sub["r1"], "blob") = WritesOf(sub["p1"], "blob")
        /\ WritesOf(sub["r1"], "complaint") = WritesOf(sub["p1"], "complaint")
        /\ (WritesOf(sub["r1"], "complaint") # {})
              => InsertedColumns(sub["r1"].rowId) = InsertedColumns(sub["p1"].rowId)
        /\ CallerOutcome("r1") = CallerOutcome("p1")
        /\ form["r1"].formData.issueType = "others"
              => /\ sub["r1"].writes = sub["p1"].writes
                 /\ statusUpdates = <<>>

====
